---- MODULE Spec2Model ----
(***************************************************************************)
(* Digi Hash Utility (src/index.js): the encrypt/decrypt envelope          *)
(* (JSON text -> passphrase AES -> base64 -> hex and back) and the policy  *)
(* gate around it (enable flags, whitelist, secret key lookup), with the   *)
(* client-side request and response shaping.                               *)
(*                                                                         *)
(* JavaScript values are records tagged by the field t, each type with its *)
(* own payload field.  A string is a sequence of one-character strings.    *)
(* A call that raises is the result Throw(..), one that returns is Ok(..)  *)
(* or Arg(..).  The libraries the code calls (JSON, CryptoJS, Buffer) are  *)
(* modelled by what they do on these values.                               *)
(***************************************************************************)
EXTENDS Integers, Sequences, FiniteSets, TLC

VARIABLES
  env,   \* process.env: variable name -> string or undefined
  call,  \* the call being made: the entry point and its arguments
  arg,   \* the first argument (an object the caller still holds) as it is now
  ret    \* what the call returned or raised; Pending before it ran

vars == <<env, call, arg, ret>>

\* ------------------------------------------------------------ JS values

Undefined == [t |-> "undefined"]
Null == [t |-> "null"]
NaN == [t |-> "nan"]
Func == [t |-> "function"]
BigInt == [t |-> "bigint"]
\* an object that refers to itself: o = {}; o.self = o
Cyclic == [t |-> "cyclic"]
Bool(b) == [t |-> "bool", b |-> b]
Num(n) == [t |-> "num", n |-> n]
Str(chars) == [t |-> "str", s |-> chars]
Arr(elems) == [t |-> "arr", a |-> elems]
\* an object: its own enumerable properties, in insertion order, as <<key, value>>
Obj(props) == [t |-> "obj", o |-> props]

\* what CryptoJS.AES.encrypt(text, key) holds: the random salt, the passphrase and
\* the plaintext (recoverable from the ciphertext bytes under that passphrase only)
Cipher(salt, key, text) == [salt |-> salt, key |-> key, text |-> text]
\* the string Buffer.from(base64 of ct).toString('hex'), with its last `drop` hex
\* digits cut off (drop = 0: the string as hashData returns it)
HexStr(ct, drop) == [t |-> "hex", ct |-> ct, drop |-> drop]

\* a call's outcome: Ok(v) returns a value made by the call, Arg(v) returns the
\* very value that was passed in (return data), Throw(msg) raises an Error
Ok(v) == [st |-> "ok", v |-> v, same |-> FALSE]
Arg(v) == [st |-> "ok", v |-> v, same |-> TRUE]
Throw(msg) == [st |-> "throw", v |-> [t |-> "error", msg |-> msg], same |-> FALSE]

IsString(v) == v.t \in {"str", "hex"}

\* JS truthiness
Truthy(v) ==
  CASE v.t \in {"undefined", "null", "nan"} -> FALSE
    [] v.t = "bool" -> v.b
    [] v.t = "num" -> v.n # 0
    [] v.t = "str" -> v.s # <<>>
    [] OTHER -> TRUE

\* a || b
JsOr(a, b) == IF Truthy(a) THEN a ELSE b

\* typeof v === 'object'
TypeofObject(v) == v.t \in {"null", "arr", "obj", "cyclic"}

RECURSIVE FindProp(_, _, _)
FindProp(props, name, i) ==
  IF i > Len(props) THEN 0
  ELSE IF props[i][1] = name THEN i
  ELSE FindProp(props, name, i + 1)

\* v?.name : undefined on undefined and null, and on a value with no such property
GetProp(v, name) ==
  IF v.t = "obj" /\ FindProp(v.o, name, 1) > 0
  THEN v.o[FindProp(v.o, name, 1)][2]
  ELSE Undefined

\* o.name = x on an object: replaces the property in place or appends it
SetProp(o, name, x) ==
  LET i == FindProp(o.o, name, 1) IN
  IF i > 0 THEN Obj([o.o EXCEPT ![i] = <<name, x>>])
  ELSE Obj(Append(o.o, <<name, x>>))

\* ------------------------------------------------------------ JSON.stringify

Digit(d) == CASE d = 0 -> "0" [] d = 1 -> "1" [] d = 2 -> "2" [] d = 3 -> "3"
              [] d = 4 -> "4" [] d = 5 -> "5" [] d = 6 -> "6" [] d = 7 -> "7"
              [] d = 8 -> "8" [] d = 9 -> "9"

RECURSIVE NatText(_)
NatText(n) == IF n < 10 THEN <<Digit(n)>> ELSE NatText(n \div 10) \o <<Digit(n % 10)>>

NumText(n) == IF n < 0 THEN <<"-">> \o NatText(-n) ELSE NatText(n)

RECURSIVE EscapeChars(_)
EscapeChars(s) ==
  IF s = <<>> THEN <<>>
  ELSE (IF Head(s) \in {"\"", "\\"} THEN <<"\\", Head(s)>> ELSE <<Head(s)>>)
       \o EscapeChars(Tail(s))

Quote(s) == <<"\"">> \o EscapeChars(s) \o <<"\"">>

\* The serialization of v: [st |-> "text", text |-> ..] for a string result,
\* [st |-> "undefined"] when JSON.stringify returns undefined, [st |-> "throw"]
\* when it raises a TypeError (a BigInt, a circular structure). A sealed hex
\* string is never itself sealed again in the calls drawn below.
RECURSIVE Serialize(_)
RECURSIVE SerializeElems(_, _, _)
RECURSIVE SerializeProps(_, _, _, _)

\* array elements: undefined and functions are written as null
SerializeElems(elems, i, acc) ==
  IF i > Len(elems) THEN [st |-> "text", text |-> <<"[">> \o acc \o <<"]">>]
  ELSE LET s == Serialize(elems[i])
           sep == IF i = 1 THEN <<>> ELSE <<",">>
       IN CASE s.st = "throw" -> s
            [] s.st = "undefined" ->
                 SerializeElems(elems, i + 1, acc \o sep \o <<"n", "u", "l", "l">>)
            [] OTHER -> SerializeElems(elems, i + 1, acc \o sep \o s.text)

\* object properties: those whose value is undefined or a function are left out
SerializeProps(props, i, acc, first) ==
  IF i > Len(props) THEN [st |-> "text", text |-> <<"{">> \o acc \o <<"}">>]
  ELSE LET s == Serialize(props[i][2])
           sep == IF first THEN <<>> ELSE <<",">>
       IN CASE s.st = "throw" -> s
            [] s.st = "undefined" -> SerializeProps(props, i + 1, acc, first)
            [] OTHER -> SerializeProps(props, i + 1,
                          acc \o sep \o Quote(props[i][1]) \o <<":">> \o s.text, FALSE)

Serialize(v) ==
  CASE v.t \in {"undefined", "function"} -> [st |-> "undefined"]
    [] v.t \in {"bigint", "cyclic"} -> [st |-> "throw"]
    [] v.t \in {"null", "nan"} -> [st |-> "text", text |-> <<"n", "u", "l", "l">>]
    [] v.t = "bool" -> [st |-> "text", text |-> IF v.b THEN <<"t", "r", "u", "e">>
                                                 ELSE <<"f", "a", "l", "s", "e">>]
    [] v.t = "num" -> [st |-> "text", text |-> NumText(v.n)]
    [] v.t = "str" -> [st |-> "text", text |-> Quote(v.s)]
    [] v.t = "arr" -> SerializeElems(v.a, 1, <<>>)
    [] v.t = "obj" -> SerializeProps(v.o, 1, <<>>, TRUE)

\* JSON.stringify(v): a string, undefined, or a TypeError
JSONstringify(v) ==
  LET s == Serialize(v) IN
  CASE s.st = "text" -> Ok(Str(s.text))
    [] s.st = "undefined" -> Ok(Undefined)
    [] OTHER -> Throw("TypeError")

\* ------------------------------------------------------------ JSON.parse

DigitVal(c) == CASE c = "0" -> 0 [] c = "1" -> 1 [] c = "2" -> 2 [] c = "3" -> 3
                 [] c = "4" -> 4 [] c = "5" -> 5 [] c = "6" -> 6 [] c = "7" -> 7
                 [] c = "8" -> 8 [] c = "9" -> 9

IsDigit(c) == c \in {"0", "1", "2", "3", "4", "5", "6", "7", "8", "9"}

ParseFail == [ok |-> FALSE, v |-> Undefined, next |-> 0]
Parsed(v, next) == [ok |-> TRUE, v |-> v, next |-> next]

\* text has the characters of lit at position i
MatchAt(text, i, lit) ==
  /\ i + Len(lit) - 1 <= Len(text)
  /\ \A k \in 1..Len(lit) : text[i + k - 1] = lit[k]

RECURSIVE ParseDigits(_, _, _)
ParseDigits(text, i, acc) ==
  IF i <= Len(text) /\ IsDigit(text[i])
  THEN ParseDigits(text, i + 1, 10 * acc + DigitVal(text[i]))
  ELSE Parsed(acc, i)

\* an integer: -? (0 | [1-9][0-9]*)
ParseNumber(text, i) ==
  LET neg == i <= Len(text) /\ text[i] = "-"
      j == IF neg THEN i + 1 ELSE i
  IN IF j > Len(text) \/ ~IsDigit(text[j]) THEN ParseFail
     ELSE LET d == IF text[j] = "0" THEN Parsed(0, j + 1) ELSE ParseDigits(text, j, 0)
          IN Parsed(Num(IF neg THEN -d.v ELSE d.v), d.next)

\* the characters of a string literal whose opening quote is before position i
RECURSIVE ParseChars(_, _, _)
ParseChars(text, i, acc) ==
  IF i > Len(text) THEN ParseFail
  ELSE IF text[i] = "\"" THEN Parsed(acc, i + 1)
  ELSE IF text[i] = "\\"
       THEN IF i + 1 <= Len(text) /\ text[i + 1] \in {"\"", "\\", "/"}
            THEN ParseChars(text, i + 2, Append(acc, text[i + 1]))
            ELSE ParseFail
  ELSE ParseChars(text, i + 1, Append(acc, text[i]))

RECURSIVE ParseValue(_, _)
RECURSIVE ParseElems(_, _, _)
RECURSIVE ParseMembers(_, _, _)

\* after "[" or ",": a value, then "," or "]"
ParseElems(text, i, acc) ==
  LET e == ParseValue(text, i) IN
  IF ~e.ok \/ e.next > Len(text) THEN ParseFail
  ELSE IF text[e.next] = "]" THEN Parsed(Arr(Append(acc, e.v)), e.next + 1)
  ELSE IF text[e.next] = "," THEN ParseElems(text, e.next + 1, Append(acc, e.v))
  ELSE ParseFail

\* after "{" or ",": "key" : value, then "," or "}"; a repeated key keeps its
\* first place and takes the last value
ParseMembers(text, i, acc) ==
  IF i > Len(text) \/ text[i] # "\"" THEN ParseFail
  ELSE LET k == ParseChars(text, i + 1, <<>>) IN
       IF ~k.ok \/ k.next > Len(text) \/ text[k.next] # ":" THEN ParseFail
       ELSE LET e == ParseValue(text, k.next + 1) IN
            IF ~e.ok \/ e.next > Len(text) THEN ParseFail
            ELSE LET o == SetProp(acc, k.v, e.v) IN
                 IF text[e.next] = "}" THEN Parsed(o, e.next + 1)
                 ELSE IF text[e.next] = "," THEN ParseMembers(text, e.next + 1, o)
                 ELSE ParseFail

ParseValue(text, i) ==
  IF i > Len(text) THEN ParseFail
  ELSE CASE MatchAt(text, i, <<"n", "u", "l", "l">>) -> Parsed(Null, i + 4)
         [] MatchAt(text, i, <<"t", "r", "u", "e">>) -> Parsed(Bool(TRUE), i + 4)
         [] MatchAt(text, i, <<"f", "a", "l", "s", "e">>) -> Parsed(Bool(FALSE), i + 5)
         [] text[i] = "\"" ->
              LET s == ParseChars(text, i + 1, <<>>) IN
              IF s.ok THEN Parsed(Str(s.v), s.next) ELSE ParseFail
         [] text[i] = "[" ->
              IF i + 1 <= Len(text) /\ text[i + 1] = "]" THEN Parsed(Arr(<<>>), i + 2)
              ELSE ParseElems(text, i + 1, <<>>)
         [] text[i] = "{" ->
              IF i + 1 <= Len(text) /\ text[i + 1] = "}" THEN Parsed(Obj(<<>>), i + 2)
              ELSE ParseMembers(text, i + 1, Obj(<<>>))
         [] OTHER -> ParseNumber(text, i)

\* JSON.parse(text): the value, or a SyntaxError
JSONparse(text) ==
  LET r == ParseValue(text, 1) IN
  IF r.ok /\ r.next = Len(text) + 1 THEN Ok(r.v) ELSE Throw("SyntaxError")

\* ------------------------------------------------------------ environment

\* process.env[key]; this models a run where process.env exists (Node, or a
\* bundler that defines it), so lines 25 and 29 read the same variable
ProcessEnv(e, key) == IF key \in DOMAIN e THEN e[key] ELSE Undefined

getEnvVar(e, key, defaultValue) ==
  IF Truthy(ProcessEnv(e, key)) THEN ProcessEnv(e, key)
  ELSE LET reactKey == "REACT_APP_" \o key IN
       IF Truthy(ProcessEnv(e, reactKey)) THEN ProcessEnv(e, reactKey)
       ELSE defaultValue

EmptyStr == Str(<<>>)
TrueStr == Str(<<"t", "r", "u", "e">>)
FalseStr == Str(<<"f", "a", "l", "s", "e">>)

\* a lookup that hands back the empty key instead of raising
getSecretKey_noThrow(e) ==
  Ok(JsOr(getEnvVar(e, "HOOK_SECRET_KEY", EmptyStr),
          getEnvVar(e, "REACT_APP_HASH_SECRET_KEY", EmptyStr)))

getSecretKey(e) ==
  LET key == JsOr(getEnvVar(e, "HOOK_SECRET_KEY", EmptyStr),
                  getEnvVar(e, "REACT_APP_HASH_SECRET_KEY", EmptyStr))
  IN IF ~Truthy(key)
     THEN Throw("HOOK_SECRET_KEY not found in environment variables")
     ELSE Ok(key)

getEnableHashData(e) ==
  JsOr(getEnvVar(e, "ENABLE_HASH_DATA", FalseStr),
       getEnvVar(e, "REACT_APP_ENABLE_HASH_DATA", FalseStr))

getEnableDecodeData(e) ==
  JsOr(getEnvVar(e, "ENABLE_DECODE_DATA", FalseStr),
       getEnvVar(e, "REACT_APP_ENABLE_DECODE_DATA", FalseStr))

\* chars.split(sep): the pieces between the separators
RECURSIVE Split(_, _, _, _)
Split(chars, sep, i, piece) ==
  IF i > Len(chars) THEN <<piece>>
  ELSE IF chars[i] = sep THEN <<piece>> \o Split(chars, sep, i + 1, <<>>)
  ELSE Split(chars, sep, i + 1, Append(piece, chars[i]))

RECURSIVE TrimStart(_)
TrimStart(chars) ==
  IF chars # <<>> /\ Head(chars) = " " THEN TrimStart(Tail(chars)) ELSE chars

RECURSIVE TrimEnd(_)
TrimEnd(chars) ==
  IF chars # <<>> /\ chars[Len(chars)] = " "
  THEN TrimEnd(SubSeq(chars, 1, Len(chars) - 1)) ELSE chars

\* item.trim()
Trim(chars) == TrimEnd(TrimStart(chars))

\* list.split(',').map(item => item.trim())
SplitTrim(chars) ==
  LET pieces == Split(chars, ",", 1, <<>>) IN
  [i \in 1..Len(pieces) |-> Trim(pieces[i])]

\* a whitelist whose entries are not trimmed
getWhiteList_noTrim(e) ==
  LET whitelist == JsOr(getEnvVar(e, "HASH_WHITE_LIST", EmptyStr),
                        getEnvVar(e, "REACT_APP_HASH_WHITE_LIST", EmptyStr))
  IN IF Truthy(whitelist) THEN Split(whitelist.s, ",", 1, <<>>) ELSE <<>>

getWhiteList(e) ==
  LET whitelist == JsOr(getEnvVar(e, "HASH_WHITE_LIST", EmptyStr),
                        getEnvVar(e, "REACT_APP_HASH_WHITE_LIST", EmptyStr))
  IN IF Truthy(whitelist) THEN SplitTrim(whitelist.s) ELSE <<>>

getExcludePath(e) ==
  LET excludePaths == JsOr(getEnvVar(e, "HASH_EXCLUDE_PATH", EmptyStr),
                           getEnvVar(e, "REACT_APP_HASH_EXCLUDE_PATH", EmptyStr))
  IN IF Truthy(excludePaths) THEN SplitTrim(excludePaths.s) ELSE <<>>

\* list.includes(x) for a list of strings: x is a string equal to an entry
Includes(list, x) == x.t = "str" /\ \E i \in 1..Len(list) : list[i] = x.s

\* a parameter's default value: param = dflt applies when undefined is passed
Default(x, dflt) == IF x.t = "undefined" THEN dflt ELSE x

\* ------------------------------------------------------------ the envelope

\* CryptoJS.AES.encrypt(message, key): with a string key, passphrase-based AES
\* under a fresh random salt; finalize(message) appends nothing for an undefined
\* message, which so encrypts as the empty text. A key that is no string is taken
\* for a WordArray and raises a TypeError.
AESencrypt(message, key, salt) ==
  IF key.t # "str" THEN Throw("TypeError")
  ELSE Ok(Cipher(salt, key.s, IF message.t = "str" THEN message.s ELSE <<>>))

\* the ciphertext's bytes: "Salted__", the salt, and the PKCS7-padded blocks
CipherBytes(ct) == 16 + 16 * (Len(ct.text) \div 16 + 1)

\* the "=" characters that end the base64 text of ct
PadChars(ct) == (3 - (CipherBytes(ct) % 3)) % 3

\* the length of the base64 text of ct
Base64Len(ct) == 4 * ((CipherBytes(ct) + 2) \div 3)

\* cipherParams.toString(): the OpenSSL-format base64 text
CipherToString(ct) == [k |-> "b64", ct |-> ct, lost |-> 0]

\* Buffer.from(text).toString('hex')
BufferToHex(text) == HexStr(text.ct, 2 * text.lost)

\* lines 107-110 and 218-221: serialize, encrypt, hex-encode
Seal(data, secretKey, salt) ==
  LET j == JSONstringify(data) IN
  IF j.st = "throw" THEN j
  ELSE LET c == AESencrypt(j.v, secretKey, salt) IN
       IF c.st = "throw" THEN c
       ELSE Ok(BufferToHex(CipherToString(c.v)))

IsHexDigit(c) == c \in {"0", "1", "2", "3", "4", "5", "6", "7", "8", "9",
                        "a", "b", "c", "d", "e", "f", "A", "B", "C", "D", "E", "F"}

\* the number of leading pairs of hex digits in chars
RECURSIVE HexPairs(_, _)
HexPairs(chars, i) ==
  IF i + 1 <= Len(chars) /\ IsHexDigit(chars[i]) /\ IsHexDigit(chars[i + 1])
  THEN 1 + HexPairs(chars, i + 2)
  ELSE 0

\* Buffer.from(data, 'hex').toString(): a string decodes up to its first pair
\* that is not hex (and loses an odd last digit) without raising; an array gives
\* one byte per element; any other value raises a TypeError. The text is either
\* the base64 text of a ciphertext less its last `lost` characters, or `n`
\* characters that came from no ciphertext.
BufferFromHex(data) ==
  CASE data.t = "hex" ->
         Ok([k |-> "b64", ct |-> data.ct, lost |-> (data.drop + 1) \div 2])
    [] data.t = "str" -> Ok([k |-> "raw", n |-> HexPairs(data.s, 1)])
    [] data.t = "arr" -> Ok([k |-> "raw", n |-> Len(data.a)])
    [] OTHER -> Throw("TypeError")

\* What decrypting bytes that are not a ciphertext under this key can give:
\* the unpadded garbage is no UTF-8 (toString raises "Malformed UTF-8 data"),
\* or its last byte exceeds its length (the empty text), or it is some text,
\* which may even be JSON.
Garbled == {Throw("Malformed UTF-8 data"), Ok(<<>>), Ok(<<"?">>), Ok(<<"7">>)}

\* CryptoJS.AES.decrypt(text, key).toString(CryptoJS.enc.Utf8). Base64 parsing
\* stops at the first "=" and yields bytes from what is there, so a text that
\* lost only its padding characters still holds the whole ciphertext; a text of
\* at most one character holds no byte and decrypts to the empty text. The
\* outcome g is what the garbage turns out to be when it is garbage.
AESdecrypt(text, key, g) ==
  IF key.t # "str" THEN Throw("TypeError")
  ELSE IF text.k = "raw"
       THEN IF text.n - (text.n + 3) \div 4 = 0 THEN Ok(<<>>) ELSE g
  ELSE IF Base64Len(text.ct) - text.lost <= 1 THEN Ok(<<>>)
  ELSE IF text.lost <= PadChars(text.ct) /\ key.s = text.ct.key
       THEN Ok(text.ct.text)
  ELSE g

\* an open that returns the decrypted text without parsing it
decodeData_noParse(data, secretKey, g) ==
  LET b == BufferFromHex(data) IN
  IF b.st = "throw" THEN Arg(data)
  ELSE LET tmpData == AESdecrypt(b.v, secretKey, g) IN
       IF tmpData.st = "throw" THEN Arg(data) ELSE Ok(Str(tmpData.v))

decodeData(data, secretKey, g) ==
  LET b == BufferFromHex(data) IN
  IF b.st = "throw" THEN Arg(data)
  ELSE LET tmpData == AESdecrypt(b.v, secretKey, g) IN
       IF tmpData.st = "throw" THEN Arg(data)
       ELSE IF tmpData.v = <<>> THEN Ok(EmptyStr)
       ELSE LET p == JSONparse(tmpData.v) IN
            IF p.st = "throw" THEN Arg(data) ELSE p

hashData(data, secretKey, salt) ==
  LET h == Seal(data, secretKey, salt) IN
  IF h.st = "throw" THEN Arg(data) ELSE h

\* ------------------------------------------------------------ server side

\* a gate that takes every flag but 'false' for enabled
serverHashData_looseFlag(e, data, senderAddress, salt) ==
  IF getEnableHashData(e) # FalseStr
  THEN LET SECRET_KEY == getSecretKey(e) IN
       IF SECRET_KEY.st = "throw" THEN SECRET_KEY
       ELSE Seal(data, SECRET_KEY.v, salt)
  ELSE Arg(data)

serverHashData(e, data, senderAddress, salt) ==
  IF getEnableHashData(e) = TrueStr
  THEN LET SECRET_KEY == getSecretKey(e) IN
       IF SECRET_KEY.st = "throw" THEN SECRET_KEY
       ELSE Seal(data, SECRET_KEY.v, salt)
  ELSE Arg(data)

serverDecodeData(e, data, senderAddress, path, g) ==
  IF getEnableDecodeData(e) = TrueStr
  THEN IF Includes(getWhiteList(e), Default(senderAddress, EmptyStr))
       THEN Arg(data)
       ELSE LET SECRET_KEY == getSecretKey(e) IN
            IF SECRET_KEY.st = "throw" THEN SECRET_KEY
            ELSE decodeData(data, SECRET_KEY.v, g)
  ELSE Arg(data)

\* ------------------------------------------------------------ client side

K_method == <<"m", "e", "t", "h", "o", "d">>
K_data == <<"d", "a", "t", "a">>
K_params == <<"p", "a", "r", "a", "m", "s">>
K_hash == <<"h", "a", "s", "h">>
K_total == <<"t", "o", "t", "a", "l">>

\* {...config, [name]: {hash}}: a new object with config's own properties
Spread(config, name, hash) == SetProp(config, name, Obj(<< <<K_hash, hash>> >>))

\* a request shaping that writes the sealed body into the config it was given
clientHashData_inPlace(config, enableHashData, secretKey, salt) ==
  IF (enableHashData = Bool(TRUE) \/ enableHashData = TrueStr) /\ config.t = "obj"
     /\ GetProp(config, K_method) = Str(<<"p", "o", "s", "t">>)
  THEN LET c == Spread(config, K_data,
                       hashData(GetProp(config, K_data), secretKey, salt).v)
       IN [ret |-> Arg(c), arg |-> c]
  ELSE [ret |-> Arg(config), arg |-> config]

\* The outcome and the config object as the call leaves it. Reading
\* config.method of undefined or null raises a TypeError.
clientHashData(config, enableHashData, secretKey, salt) ==
  IF enableHashData = Bool(TRUE) \/ enableHashData = TrueStr
  THEN IF config.t \in {"undefined", "null"}
       THEN [ret |-> Throw("TypeError"), arg |-> config]
       ELSE LET method == GetProp(config, K_method)
                c1 == IF method = Str(<<"p", "a", "t", "c", "h">>)
                         \/ method = Str(<<"p", "o", "s", "t">>)
                      THEN Ok(Spread(config, K_data,
                                hashData(GetProp(config, K_data), secretKey, salt).v))
                      ELSE Arg(config)
                c2 == IF method = Str(<<"d", "e", "l", "e", "t", "e">>)
                      THEN Ok(Spread(config, K_params,
                                hashData(GetProp(config, K_params), secretKey, salt).v))
                      ELSE c1
                c3 == IF method = Str(<<"g", "e", "t">>)
                      THEN Ok(Spread(config, K_params,
                                hashData(GetProp(config, K_params), secretKey, salt).v))
                      ELSE c2
            IN [ret |-> c3, arg |-> config]
  ELSE [ret |-> Arg(config), arg |-> config]

\* response.data.data = x, on the response object itself
SetDataData(response, x) ==
  SetProp(response, K_data, SetProp(GetProp(response, K_data), K_data, x))

\* an unwrapping that, for a page with a total, opens the whole payload
clientDecodeData_wholePayload(response, enableDecodeData, secretKey, g) ==
  LET data == GetProp(response, K_data) IN
  IF (enableDecodeData = TrueStr \/ enableDecodeData = Bool(TRUE))
     /\ Truthy(GetProp(data, K_total))
  THEN LET r == SetProp(response, K_data, decodeData(data, secretKey, g).v)
       IN [ret |-> Arg(r), arg |-> r]
  ELSE [ret |-> Arg(response), arg |-> response]

\* The outcome and the response object as the call leaves it: the assignments
\* are made on the object that was passed in, which is also what is returned.
clientDecodeData(response, enableDecodeData, secretKey, g) ==
  LET data == GetProp(response, K_data)
      Mutated(r) == [ret |-> Arg(r), arg |-> r]
  IN IF enableDecodeData = TrueStr \/ enableDecodeData = Bool(TRUE)
     THEN IF Truthy(GetProp(data, K_total))
          THEN Mutated(SetDataData(response,
                         decodeData(GetProp(data, K_data), secretKey, g).v))
          ELSE IF Truthy(data)
               THEN IF TypeofObject(data)
                    THEN IF Truthy(GetProp(data, K_data))
                         THEN Mutated(SetDataData(response,
                                        decodeData(GetProp(data, K_data), secretKey, g).v))
                         ELSE Mutated(response)
                    ELSE Mutated(SetProp(response, K_data,
                                   decodeData(data, secretKey, g).v))
               ELSE Mutated(response)
     ELSE Mutated(response)

\* ------------------------------------------------------------ bounds and inputs

\* random salts CryptoJS may draw
MaxSalt == 2
\* hex digits cut off the end of a sealed string
MaxDrop == 3
\* environment variables set at once
MaxEnvSet == 4

Salts == 1..MaxSalt

K1 == <<"k", "1">>
K2 == <<"w", "r", "o", "n", "g", "-", "k", "e", "y">>

\* {message: "Hello, world!"}: 27 characters of JSON, two AES blocks
ObjMsg == Obj(<< <<<<"m", "e", "s", "s", "a", "g", "e">>,
                   Str(<<"H", "e", "l", "l", "o", ",", " ", "w", "o", "r", "l", "d", "!">>)>> >>)
ObjNested == Obj(<< <<<<"i", "d">>, Num(7)>>,
                    <<<<"t", "a", "g", "s">>, Arr(<<Str(<<"x">>), Null, Bool(FALSE)>>)>> >>)
StrHi == Str(<<"h", "i">>)

\* values JSON can express
JsonValues ==
  {Null, Bool(TRUE), Num(0), Num(-12), EmptyStr, StrHi, Str(<<"a", "\"", "\\">>),
   Arr(<<>>), Arr(<<Num(1), Str(<<"x">>)>>), Obj(<<>>), ObjMsg, ObjNested}

\* values JSON cannot express
NonJsonValues ==
  {Undefined, NaN, Func, BigInt, Cyclic, Arr(<<Undefined>>),
   Obj(<< <<<<"u">>, Undefined>> >>), Obj(<< <<<<"n">>, BigInt>> >>)}

RECURSIVE IsJson(_)
IsJson(v) ==
  CASE v.t \in {"null", "bool", "num", "str"} -> TRUE
    [] v.t = "arr" -> \A i \in 1..Len(v.a) : IsJson(v.a[i])
    [] v.t = "obj" -> \A i \in 1..Len(v.o) : IsJson(v.o[i][2])
    [] OTHER -> FALSE

\* plaintexts somebody may have sealed: JSON texts, the empty text, and a text
\* that is no JSON
PlainTexts == {Serialize(ObjMsg).text, Serialize(Num(0)).text, <<>>, <<"h", "i">>}

Envelopes ==
  {HexStr(Cipher(1, k, text), drop) : k \in {K1, K2}, text \in PlainTexts, drop \in 0..MaxDrop}

\* what a caller may pass to decodeData
OpenInputs ==
  Envelopes \cup
  {Str(<<"z", "z">>), EmptyStr, Str(<<"6", "a">>), Str(<<"6", "a", "6", "b", "6">>),
   Str(<<"6", "a", "6", "b", "z", "z">>), Num(5), Num(0), Null, Undefined, Bool(FALSE),
   ObjMsg, Arr(<<>>), Arr(<<Num(1), Num(2), Num(3)>>)}

SecretKeys == {Str(K1), Str(K2), Undefined}

\* the enable argument of the client entry points
EnableArgs == {Bool(TRUE), TrueStr, Bool(FALSE), FalseStr, Str(<<"T", "R", "U", "E">>), Undefined}

Methods == {<<"p", "o", "s", "t">>, <<"p", "a", "t", "c", "h">>, <<"g", "e", "t">>,
            <<"d", "e", "l", "e", "t", "e">>, <<"p", "u", "t">>, <<"P", "O", "S", "T">>}

K_url == <<"u", "r", "l">>
ObjQuery == Obj(<< <<<<"q">>, Num(1)>> >>)

\* an optional property
Opt(name, vals) == {<<>>} \cup {<< <<name, v>> >> : v \in vals}

\* request descriptors: a url, and optionally a method, a body and parameters
Configs ==
  {Obj(<< <<K_url, Str(<<"/", "p">>)>> >> \o m \o d \o q) :
     m \in Opt(K_method, {Str(x) : x \in Methods}),
     d \in Opt(K_data, {ObjMsg, BigInt}),
     q \in Opt(K_params, {ObjQuery})}
  \cup {Undefined, Null}

SealedMsg == HexStr(Cipher(1, K1, Serialize(ObjMsg).text), 0)
SealedEmpty == HexStr(Cipher(1, K1, <<>>), 0)
K_status == <<"s", "t", "a", "t", "u", "s">>

\* payloads of a response: pages with a total, objects with or without a nested
\* data field, scalars
Payloads ==
  {Obj(<< <<K_total, t>> >> \o d) :
     t \in {Num(3), Num(0)},
     d \in Opt(K_data, {SealedMsg, HexStr(Cipher(1, K2, <<"0">>), 0), EmptyStr})}
  \cup {Obj(d \o << <<K_url, StrHi>> >>) :
          d \in Opt(K_data, {SealedMsg, SealedEmpty, ObjMsg, Null, Num(0)})}
  \cup {SealedMsg, HexStr(Cipher(1, K2, <<"0">>), 0), Str(<<"z", "z">>), EmptyStr,
        Num(5), Num(0), Bool(FALSE), Null, Arr(<<SealedMsg>>)}

Responses ==
  {Obj(<< <<K_status, Num(200)>> >> \o d) : d \in Opt(K_data, Payloads)}
  \cup {Undefined, Null}

\* caller identities and request paths; an omitted argument is undefined
Senders == {Undefined, Str(<<"b">>), Str(<<"z">>)}
Paths == {Undefined, Str(<<"/", "p">>)}

ServerSealInputs == {ObjMsg, StrHi, Undefined, BigInt}
ServerOpenInputs ==
  {SealedMsg, HexStr(Cipher(1, K2, Serialize(ObjMsg).text), 0),
   HexStr(Cipher(1, K1, <<"h", "i">>), 0),
   HexStr(Cipher(1, K1, Serialize(ObjMsg).text), MaxDrop),
   Str(<<"z", "z">>), Num(5)}

\* the values each environment variable may be set to
EnvValues(name) ==
  CASE name = "HOOK_SECRET_KEY" -> {Str(K1), EmptyStr}
    [] name \in {"REACT_APP_HOOK_SECRET_KEY", "REACT_APP_HASH_SECRET_KEY"} -> {Str(K2)}
    [] name = "REACT_APP_REACT_APP_HASH_SECRET_KEY" -> {Str(K1)}
    [] name = "ENABLE_HASH_DATA" -> {TrueStr, Str(<<"T", "R", "U", "E">>)}
    [] name = "ENABLE_DECODE_DATA" -> {TrueStr, Str(<<"1">>)}
    [] name \in {"REACT_APP_ENABLE_HASH_DATA", "REACT_APP_ENABLE_DECODE_DATA"} -> {TrueStr}
    [] name = "HASH_WHITE_LIST" -> {Str(<<"a", ",", " ", "b">>)}
    [] name = "REACT_APP_HASH_WHITE_LIST" -> {Str(<<"z">>)}
    [] name = "HASH_EXCLUDE_PATH" -> {Str(<<"/", "p">>)}

EnvNames ==
  <<"HOOK_SECRET_KEY", "REACT_APP_HOOK_SECRET_KEY", "REACT_APP_HASH_SECRET_KEY",
    "REACT_APP_REACT_APP_HASH_SECRET_KEY", "ENABLE_HASH_DATA", "REACT_APP_ENABLE_HASH_DATA",
    "ENABLE_DECODE_DATA", "REACT_APP_ENABLE_DECODE_DATA",
    "HASH_WHITE_LIST", "REACT_APP_HASH_WHITE_LIST", "HASH_EXCLUDE_PATH">>

\* an environment with no variable set
NoEnv == [n \in {} |-> Undefined]

\* the environments that set at most `budget` of `names`
RECURSIVE EnvSpace(_, _)
EnvSpace(names, budget) ==
  IF names = <<>> THEN {NoEnv}
  ELSE EnvSpace(Tail(names), budget) \cup
       (IF budget = 0 THEN {}
        ELSE {(Head(names) :> v) @@ e :
                v \in EnvValues(Head(names)), e \in EnvSpace(Tail(names), budget - 1)})

Envs == EnvSpace(EnvNames, MaxEnvSet)

\* ------------------------------------------------------------ the calls

Pending == [st |-> "pending", v |-> Undefined, same |-> FALSE]

\* `chained`: data is what the sealing call just returned for `orig`
ServerCalls ==
  {[op |-> "serverHashData", data |-> d, sender |-> s] :
     d \in ServerSealInputs, s \in Senders}
  \cup {[op |-> "serverDecodeData", data |-> d, sender |-> s, path |-> p,
         chained |-> FALSE, orig |-> Undefined] :
          d \in ServerOpenInputs, s \in Senders, p \in Paths}

ClientCalls ==
  {[op |-> "hashData", data |-> d, key |-> k] :
     d \in JsonValues \cup NonJsonValues, k \in SecretKeys}
  \cup {[op |-> "decodeData", data |-> d, key |-> k, chained |-> FALSE,
         orig |-> Undefined, sealKey |-> Undefined] :
          d \in OpenInputs, k \in SecretKeys}
  \cup {[op |-> "clientHashData", data |-> c, enable |-> en, key |-> k] :
          c \in Configs, en \in EnableArgs, k \in {Str(K1), Undefined}}
  \cup {[op |-> "clientDecodeData", data |-> r, enable |-> en, key |-> k] :
          r \in Responses, en \in EnableArgs, k \in {Str(K1), Undefined}}

Init ==
  /\ \/ env \in Envs /\ call \in ServerCalls
     \/ env = NoEnv /\ call \in ClientCalls
  /\ arg = call.data
  /\ ret = Pending

ServerHashData ==
  /\ call.op = "serverHashData" /\ ret = Pending
  /\ \E salt \in Salts : ret' = serverHashData(env, call.data, call.sender, salt)
  /\ UNCHANGED <<env, call, arg>>

\* called on its own, or on what serverHashData just returned
ServerDecodeData ==
  \/ /\ call.op = "serverDecodeData" /\ ret = Pending
     /\ \E g \in Garbled :
          ret' = serverDecodeData(env, call.data, call.sender, call.path, g)
     /\ UNCHANGED <<env, call, arg>>
  \/ /\ call.op = "serverHashData" /\ ret.st = "ok"
     /\ \E s \in Senders, p \in Paths, g \in Garbled :
          /\ call' = [op |-> "serverDecodeData", data |-> ret.v, sender |-> s,
                      path |-> p, chained |-> TRUE, orig |-> call.data]
          /\ ret' = serverDecodeData(env, ret.v, s, p, g)
     /\ arg' = ret.v
     /\ UNCHANGED env

HashData ==
  /\ call.op = "hashData" /\ ret = Pending
  /\ \E salt \in Salts : ret' = hashData(call.data, call.key, salt)
  /\ UNCHANGED <<env, call, arg>>

\* called on its own, or on what hashData just returned
DecodeData ==
  \/ /\ call.op = "decodeData" /\ ret = Pending
     /\ \E g \in Garbled : ret' = decodeData(call.data, call.key, g)
     /\ UNCHANGED <<env, call, arg>>
  \/ /\ call.op = "hashData" /\ ret.st = "ok"
     /\ \E k \in SecretKeys, g \in Garbled :
          /\ call' = [op |-> "decodeData", data |-> ret.v, key |-> k, chained |-> TRUE,
                      orig |-> call.data, sealKey |-> call.key]
          /\ ret' = decodeData(ret.v, k, g)
     /\ arg' = ret.v
     /\ UNCHANGED env

ClientHashData ==
  /\ call.op = "clientHashData" /\ ret = Pending
  /\ \E salt \in Salts :
       LET r == clientHashData(call.data, call.enable, call.key, salt) IN
       ret' = r.ret /\ arg' = r.arg
  /\ UNCHANGED <<env, call>>

ClientDecodeData ==
  /\ call.op = "clientDecodeData" /\ ret = Pending
  /\ \E g \in Garbled :
       LET r == clientDecodeData(call.data, call.enable, call.key, g) IN
       ret' = r.ret /\ arg' = r.arg
  /\ UNCHANGED <<env, call>>

Next ==
  \/ ServerHashData
  \/ ServerDecodeData
  \/ HashData
  \/ DecodeData
  \/ ClientHashData
  \/ ClientDecodeData

Spec == Init /\ [][Next]_vars

\* ------------------------------------------------------------ what the claims speak of

Returned == ret.st # "pending"

\* the first of `names` that the environment sets to a non-empty string
RECURSIVE FirstSet(_)
FirstSet(names) ==
  IF names = <<>> THEN Undefined
  ELSE IF Head(names) \in DOMAIN env /\ env[Head(names)].t = "str"
          /\ env[Head(names)].s # <<>>
       THEN env[Head(names)]
  ELSE FirstSet(Tail(names))

EncryptOn == FirstSet(<<"ENABLE_HASH_DATA", "REACT_APP_ENABLE_HASH_DATA">>) = TrueStr
DecryptOn == FirstSet(<<"ENABLE_DECODE_DATA", "REACT_APP_ENABLE_DECODE_DATA">>) = TrueStr

\* the secret key under every name the lookup reads, in its order
ConfiguredKey ==
  FirstSet(<<"HOOK_SECRET_KEY", "REACT_APP_HOOK_SECRET_KEY",
             "REACT_APP_HASH_SECRET_KEY", "REACT_APP_REACT_APP_HASH_SECRET_KEY">>)

\* the configured whitelist / exclude-path list: comma-separated, entries trimmed
ListOf(names) ==
  LET x == FirstSet(names) IN
  IF x.t = "str" THEN {SplitTrim(x.s)[i] : i \in 1..Len(SplitTrim(x.s))} ELSE {}
WhiteListed(sender) ==
  LET who == IF sender.t = "undefined" THEN EmptyStr ELSE sender IN
  who.t = "str" /\ who.s \in ListOf(<<"HASH_WHITE_LIST", "REACT_APP_HASH_WHITE_LIST">>)
PathExcluded(path) ==
  path.t = "str" /\ path.s \in ListOf(<<"HASH_EXCLUDE_PATH", "REACT_APP_HASH_EXCLUDE_PATH">>)

NonEmptyKey(k) == k.t = "str" /\ k.s # <<>>

\* ------------------------------------------------------------ C1

\* C1: round trip. With encryption and decryption both enabled, a secret key
\* configured and a sender that is not whitelisted, serverDecodeData applied to
\* what serverHashData returned for a JSON value v returns a value equal to v;
\* and decodeData(hashData(v, k), k) returns v for every non-empty key k.
C1_RoundTrip ==
  /\ ( /\ call.op = "serverDecodeData" /\ call.chained
       /\ EncryptOn /\ DecryptOn /\ NonEmptyKey(ConfiguredKey)
       /\ ~WhiteListed(call.sender)
       /\ IsJson(call.orig) )
     => (ret.st = "ok" /\ ret.v = call.orig)
  /\ ( /\ call.op = "decodeData" /\ call.chained
       /\ NonEmptyKey(call.key) /\ call.sealKey = call.key
       /\ IsJson(call.orig) )
     => (ret.st = "ok" /\ ret.v = call.orig)

\* the server opened the sealed {message: "Hello, world!"} back into the object
C1_Witness ==
  /\ call.op = "serverDecodeData" /\ call.chained
  /\ EncryptOn /\ DecryptOn /\ NonEmptyKey(ConfiguredKey) /\ ~WhiteListed(call.sender)
  /\ call.orig = ObjMsg /\ call.data.t = "hex"
  /\ ret = Ok(ObjMsg)

\* ------------------------------------------------------------ C2

\* C2: the disabled gate is the identity. When the encrypt flag is anything but
\* the exact string "true", serverHashData returns its data argument itself, for
\* every data and sender; when the decrypt flag is anything but "true",
\* serverDecodeData returns its data argument itself, for every data, sender and
\* path. Neither raises, whether or not a key is configured.
C2_DisabledGateIsIdentity ==
  /\ (call.op = "serverHashData" /\ Returned /\ ~EncryptOn) => ret = Arg(call.data)
  /\ (call.op = "serverDecodeData" /\ Returned /\ ~DecryptOn) => ret = Arg(call.data)

\* the flag is set, to "TRUE", no key is configured, and the data came back
C2_Witness ==
  /\ call.op = "serverHashData" /\ Returned
  /\ "ENABLE_HASH_DATA" \in DOMAIN env /\ env["ENABLE_HASH_DATA"] # TrueStr
  /\ ConfiguredKey = Undefined
  /\ call.data = ObjMsg /\ ret = Arg(ObjMsg)

\* ------------------------------------------------------------ C3

\* C3: whitelist bypass on receive. With decryption enabled and the sender a
\* member of the configured whitelist (comma-separated, entries trimmed),
\* serverDecodeData returns its data argument unchanged, decrypting nothing.
C3_WhitelistBypassOnReceive ==
  (call.op = "serverDecodeData" /\ Returned /\ DecryptOn /\ WhiteListed(call.sender))
  => ret = Arg(call.data)

\* a sealed string that the configured key opens came back sealed, the sender
\* being the entry " b" of the list "a, b"
C3_Witness ==
  /\ call.op = "serverDecodeData" /\ Returned /\ DecryptOn
  /\ call.sender = Str(<<"b">>) /\ WhiteListed(call.sender)
  /\ ConfiguredKey = Str(K1) /\ call.data = SealedMsg
  /\ ret = Arg(SealedMsg)

\* ------------------------------------------------------------ C4

KeyNotFound == Throw("HOOK_SECRET_KEY not found in environment variables")

\* C4 as stated: with the flag "true" and no secret key configured, every
\* serverHashData and every serverDecodeData call raises the key-not-found
\* error, for every data and every caller identity. (No key configured is read
\* here in the claim's favour: no variable the lookup reads is set, which
\* implies that neither the primary nor the alias is.)
C4_MissingKeyFatal_Original ==
  /\ (call.op = "serverHashData" /\ Returned /\ EncryptOn /\ ConfiguredKey = Undefined)
     => ret = KeyNotFound
  /\ (call.op = "serverDecodeData" /\ Returned /\ DecryptOn /\ ConfiguredKey = Undefined)
     => ret = KeyNotFound

\* C4 amended: with the flag "true" and none of the variables the key lookup
\* reads set to a non-empty value, every serverHashData call, and every
\* serverDecodeData call whose sender is not on the whitelist, raises the
\* key-not-found error, for every data.
C4_MissingKeyFatal ==
  /\ (call.op = "serverHashData" /\ Returned /\ EncryptOn /\ ConfiguredKey = Undefined)
     => ret = KeyNotFound
  /\ ( /\ call.op = "serverDecodeData" /\ Returned /\ DecryptOn
       /\ ConfiguredKey = Undefined
       /\ ~WhiteListed(call.sender) )
     => ret = KeyNotFound

\* a whitelist is configured, the sender is not on it, no key: the call raised
C4_Witness ==
  /\ call.op = "serverDecodeData" /\ Returned /\ DecryptOn
  /\ ConfiguredKey = Undefined
  /\ "HASH_WHITE_LIST" \in DOMAIN env /\ call.sender = Str(<<"z">>)
  /\ ret = KeyNotFound

\* ------------------------------------------------------------ C5

\* a string hashData made under this key from a JSON text, whole
ValidEnvelope(data, key) ==
  /\ data.t = "hex" /\ data.drop = 0
  /\ data.ct.key = key.s
  /\ (data.ct.text = <<>> \/ JSONparse(data.ct.text).st = "ok")

\* C5: open never raises and fails to the original input. With decryption
\* enabled, a key configured and a sender not whitelisted, for every input that
\* is no valid envelope under that key (non-hex or truncated hex, malformed
\* ciphertext, another key's envelope, a plaintext that is no JSON),
\* serverDecodeData and decodeData return exactly the original input.
C5_OpenFailsToInput ==
  /\ ( /\ call.op = "serverDecodeData" /\ Returned /\ DecryptOn
       /\ NonEmptyKey(ConfiguredKey) /\ ~WhiteListed(call.sender)
       /\ ~ValidEnvelope(call.data, ConfiguredKey) )
     => ret = Arg(call.data)
  /\ ( /\ call.op = "decodeData" /\ Returned /\ NonEmptyKey(call.key)
       /\ ~ValidEnvelope(call.data, call.key) )
     => ret = Arg(call.data)

\* ------------------------------------------------------------ C6

\* serializing or encrypting the value raises
SealFails(data, key) ==
  JSONstringify(data).st = "throw" \/ key.t # "str"

\* C6: seal failures are swallowed. With encryption enabled and a key
\* configured, when serializing or encrypting the value fails, serverHashData
\* and hashData do not raise and return the original value.
C6_SealFailuresSwallowed ==
  /\ ( /\ call.op = "serverHashData" /\ Returned /\ EncryptOn
       /\ NonEmptyKey(ConfiguredKey) /\ SealFails(call.data, ConfiguredKey) )
     => ret = Arg(call.data)
  /\ (call.op = "hashData" /\ Returned /\ SealFails(call.data, call.key))
     => ret = Arg(call.data)

\* ------------------------------------------------------------ C7

\* C7: the whitelist bypasses encryption. With encryption enabled and the
\* sender a member of the configured whitelist, serverHashData returns the data
\* unchanged, not a sealed string. (Stated where a key is configured, so that
\* the call is able to seal.)
C7_WhitelistBypassesEncryption ==
  ( /\ call.op = "serverHashData" /\ Returned /\ EncryptOn
    /\ NonEmptyKey(ConfiguredKey) /\ WhiteListed(call.sender) )
  => ret = Arg(call.data)

\* ------------------------------------------------------------ C8

\* C8: excluded paths are exempt. With decryption enabled and the path a member
\* of the configured exclude-path list, serverDecodeData returns its data
\* argument unchanged, for every data and sender. (Stated where a key is
\* configured, so that the call is able to open.)
C8_ExcludedPathsExempt ==
  ( /\ call.op = "serverDecodeData" /\ Returned /\ DecryptOn
    /\ NonEmptyKey(ConfiguredKey) /\ PathExcluded(call.path) )
  => ret = Arg(call.data)

\* ------------------------------------------------------------ C9

Names(o) == {o.o[i][1] : i \in 1..Len(o.o)}

\* objects a and b have the same properties with the same values, but for `name`
EqualBut(a, b, name) ==
  /\ a.t = "obj" /\ b.t = "obj"
  /\ Names(a) \ {name} = Names(b) \ {name}
  /\ \A n \in Names(a) \ {name} : GetProp(a, n) = GetProp(b, n)

EnableArgOn == call.enable = Bool(TRUE) \/ call.enable = TrueStr

\* the returned descriptor is the config with `name` replaced by {hash: seal(config[name])}
Shaped(name) ==
  /\ ret.st = "ok" /\ EqualBut(ret.v, call.data, name)
  /\ \E salt \in Salts :
       GetProp(ret.v, name)
         = Obj(<< <<K_hash, hashData(GetProp(call.data, name), call.key, salt).v>> >>)

BodyMethods == {Str(<<"p", "a", "t", "c", "h">>), Str(<<"p", "o", "s", "t">>)}
QueryMethods == {Str(<<"g", "e", "t">>), Str(<<"d", "e", "l", "e", "t", "e">>)}

Opened(x) == {decodeData(x, call.key, g).v : g \in Garbled}

HasProp(o, name) == o.t = "obj" /\ FindProp(o.o, name, 1) > 0

\* response.data.data was replaced by its opened value, all else as it was
InnerOpened ==
  LET d == GetProp(call.data, K_data)
      d2 == GetProp(ret.v, K_data)
  IN /\ EqualBut(ret.v, call.data, K_data)
     /\ EqualBut(d2, d, K_data)
     /\ GetProp(d2, K_data) \in Opened(GetProp(d, K_data))

\* response.data was replaced by its opened value, all else as it was
OuterOpened ==
  /\ EqualBut(ret.v, call.data, K_data)
  /\ GetProp(ret.v, K_data) \in Opened(GetProp(call.data, K_data))

\* C10: the response unwrapping decision table. With the enable argument true
\* or "true": a truthy response.data.total has response.data.data replaced by
\* its opened value; else an object response.data has its data field replaced by
\* its opened value when it has one and the response passed through when it has
\* none; else a scalar response.data is replaced by its opened value; all else
\* in the response is as it was. With the enable argument not true or "true",
\* or response.data missing, the response is returned unchanged.
C10_ResponseUnwrapping ==
  (call.op = "clientDecodeData" /\ Returned) =>
    LET d == GetProp(call.data, K_data)
        total == Truthy(GetProp(d, K_total))
        missing == d.t \in {"undefined", "null"}
        object == d.t \in {"obj", "arr", "cyclic"}
    IN /\ ret.st = "ok" /\ ret.same /\ arg = ret.v
       /\ (EnableArgOn /\ total) => InnerOpened
       /\ (EnableArgOn /\ ~total /\ object /\ HasProp(d, K_data)) => InnerOpened
       /\ (EnableArgOn /\ ~total /\ object /\ ~HasProp(d, K_data)) => ret.v = call.data
       /\ (EnableArgOn /\ ~missing /\ ~object) => OuterOpened
       /\ (~EnableArgOn \/ missing) => ret.v = call.data

\* a page {total: 3, data: <sealed>} came back with data.data opened into the
\* object and its total kept
C10_Witness ==
  /\ call.op = "clientDecodeData" /\ Returned /\ call.enable = Bool(TRUE)
  /\ call.key = Str(K1)
  /\ GetProp(GetProp(call.data, K_data), K_data) = SealedMsg
  /\ GetProp(GetProp(call.data, K_data), K_total) = Num(3)
  /\ GetProp(GetProp(ret.v, K_data), K_data) = ObjMsg
  /\ GetProp(GetProp(ret.v, K_data), K_total) = Num(3)
  /\ GetProp(ret.v, K_status) = Num(200)

====
